---- MODULE Spec2Model ----
(***************************************************************************)
(* A model of sdj's group synchronisation engine (security.py): the        *)
(* process-wide group cache, MetaGroup (the materialised group), the       *)
(* GroupsManager and Management.init_groups / process_groups, run against  *)
(* a small Django store (auth.Group rows with their user_set and           *)
(* permissions, auth.User and auth.Permission rows).                       *)
(***************************************************************************)
EXTENDS Integers, Sequences, FiniteSets, TLC

\* ------------------------------------------------------------------ bounds
\* Spaces put before and after a name handed to MetaGroup(name, ...).
MaxPad == 1
\* Longest list of rules a group (or a rule source) may hold in the model.
MaxRules == 2
\* Longest list of codename prefixes under one (app, model) key.
MaxPrefixes == 2
\* Longest app_configs handed to init_groups / process_groups.
MaxDomains == 2

\* ------------------------------------------------------------- the store
\* auth.User rows.  u1 is staff and banned, u2 is staff only.
Users == {"u1", "u2"}

\* The Q objects the rule sources use, and the users each one selects.
Rules == {"is_staff", "is_banned"}

RuleUsers(rule) ==
    IF rule = "is_staff" THEN {"u1", "u2"} ELSE {"u1"}

\* auth.Permission rows: content type (app_label, model) and codename; a
\* codename is a sequence of tokens so that startswith is a prefix test.
Permission ==
    { [app |-> "blog", model |-> "post",  codename |-> <<"add", "post">>],
      [app |-> "blog", model |-> "post",  codename |-> <<"change", "post">>],
      [app |-> "blog", model |-> "post",  codename |-> <<"delete", "post">>],
      [app |-> "shop", model |-> "order", codename |-> <<"view", "order">>],
      [app |-> "shop", model |-> "order", codename |-> <<"add", "order">>] }

\* ------------------------------------------------------------------ names
\* Names are sequences of characters; Cores are the names once the spaces
\* around them are gone ("" , a lone tab, "E" for Editors).
Cores == { <<>>, <<"\t">>, <<"E">> }

RECURSIVE Pad(_)
Pad(n) == IF n = 0 THEN <<>> ELSE <<" ">> \o Pad(n - 1)

RawNames == { Pad(l) \o c \o Pad(r) : l \in 0..MaxPad, c \in Cores, r \in 0..MaxPad }

\* str.strip(' '): drops the leading and trailing space characters only.
RECURSIVE LStrip(_)
LStrip(s) ==
    IF s # <<>> /\ Head(s) = " " THEN LStrip(Tail(s)) ELSE s

RECURSIVE RStrip(_)
RStrip(s) ==
    IF s # <<>> /\ s[Len(s)] = " " THEN RStrip(SubSeq(s, 1, Len(s) - 1)) ELSE s

Strip(s) == RStrip(LStrip(s))

\* What the text calls trimming whitespace: space and tab both go.
IsBlank(s) == \A i \in 1..Len(s) : s[i] \in {" ", "\t"}

\* ------------------------------------------------------- rule-list values
\* A rule argument as Python sees it: None, one Q object, a list made by
\* the caller for this call, or the list object held by a rule source.
ArgNone == [k |-> "none", r |-> "-", v |-> <<>>, id |-> "-"]
ArgQ(rule) == [k |-> "q", r |-> rule, v |-> <<>>, id |-> "-"]
ArgList(s) == [k |-> "list", r |-> "-", v |-> s, id |-> "-"]
ArgSrc(id) == [k |-> "src", r |-> "-", v |-> <<>>, id |-> id]

\* A group's _users_rules / _non_users_rules attribute: None, a list the
\* group owns, or a reference to a rule source's list object (an alias).
NoRules == [k |-> "none", v |-> <<>>, id |-> "-"]
OwnRules(s) == [k |-> "own", v |-> s, id |-> "-"]
RefRules(id) == [k |-> "ref", v |-> <<>>, id |-> id]

\* The list objects held by rule sources, and their contents at import.
SrcIds == { "crm.staff" }

SrcInit == [id \in SrcIds |-> << "is_staff" >>]

\* ------------------------------------------------------------ rule sources
\* INSTALLED apps.  "bad" has no permissions module, "core" has one with no
\* Group* entry.  A further app, "crm", gives its class a list of rules: the
\* passes over it are those of SpecSources.
Apps == {"blog", "shop", "core", "bad"}

NoPerms == [m \in {} |-> <<>>]

\* The Group* classes of each app's permissions module, in dir() order.
\* has_* tells whether the class defines the attribute (hasattr).
GroupSpecs(app) ==
    CASE app = "blog" ->
           << [name |-> <<"E">>,
               has_users_rules |-> TRUE,  users_rules |-> ArgQ("is_staff"),
               has_non_users_rules |-> FALSE, non_users_rules |-> ArgNone,
               has_permissions |-> TRUE,
               permissions |-> [m \in {"post"} |-> << <<"add">>, <<"change">> >>]] >>
      [] app = "shop" ->
           << [name |-> <<"E">>,
               has_users_rules |-> FALSE, users_rules |-> ArgNone,
               has_non_users_rules |-> FALSE, non_users_rules |-> ArgNone,
               has_permissions |-> TRUE,
               permissions |-> [m \in {"order"} |-> << <<"view">> >>]] >>
      [] app = "crm" ->
           << [name |-> <<"E">>,
               has_users_rules |-> TRUE,  users_rules |-> ArgSrc("crm.staff"),
               has_non_users_rules |-> FALSE, non_users_rules |-> ArgNone,
               has_permissions |-> TRUE,
               permissions |-> [m \in {"lead"} |-> << <<"view">> >>]] >>
      [] OTHER -> << >>

\* import_module(module, root_app) succeeds.
HasPermissionsModule(app) == app # "bad"

\* ------------------------------------------------------------------ state
VARIABLES
    groups_cache,              \* _groups_cache: the entries in insertion order
    module_permissions_cache,  \* _module_permissions_cache: the apps cached
    src_rules,                 \* contents of the rule sources' list objects
    djgroup,                   \* auth.Group rows: name -> user_set, permissions
    store_creates,             \* history: rows created per name
    returned,                  \* history: <<trimmed name, instance>> since clear
    run,                       \* the passes: where each thread's pass stands
    last                       \* the last call that returned or raised (none
                               \* while a pass is in progress)

vars == << groups_cache, module_permissions_cache, src_rules, djgroup,
           store_creates, returned, run, last >>

\* The threads that may run a pass.  post_migrate runs the passes of thread 1
\* one after the other; thread 2 stands for a caller that does not wait.
Runners == {1, 2}

\* The dictionary argument of a call that takes none.
NoArg == [app |-> "-", perms |-> NoPerms]

NoCall == [op |-> "none", name |-> <<>>, user |-> "-", ret |-> "None",
           err |-> "none", obj |-> 0, arg |-> NoArg]

\* ret is what the call returned: "True", "False" or "None"; for MetaGroup(...)
\* whether the instance came from the cache or was created, and obj is it.
Call(op, name, user, ret, err, obj) ==
    [op |-> op, name |-> name, user |-> user, ret |-> ret, err |-> err, obj |-> obj,
     arg |-> NoArg]

\* A thread's pass: the entry point called, app_configs, the index of the app
\* and of the Group* class the loops stand at, and the update_groups() calls
\* made so far.
NoRun == [pc |-> "idle", entry |-> "none", app_configs |-> << >>,
          app_i |-> 0, gp_i |-> 0, sync_calls |-> 0]

Idle == \A r \in Runners : run[r].pc = "idle"

\* ------------------------------------------------------------ cache access
CacheKeys == { groups_cache[i].key : i \in 1..Len(groups_cache) }

\* _groups_cache[key]
Entry(key) ==
    groups_cache[CHOOSE i \in 1..Len(groups_cache) : groups_cache[i].key = key]

IndexOf(key) ==
    CHOOSE i \in 1..Len(groups_cache) : groups_cache[i].key = key

\* id() of a new object: distinct from every instance now in the cache.
NewObj ==
    CHOOSE o \in 1..(Len(groups_cache) + 1) :
        \A i \in 1..Len(groups_cache) : groups_cache[i].obj # o

\* The list a rule attribute denotes (valid when it is not None).
RulesOf(attr) == IF attr.k = "ref" THEN src_rules[attr.id] ELSE attr.v

Init ==
    /\ groups_cache = << >>
    /\ module_permissions_cache = {}
    /\ src_rules = SrcInit
    /\ djgroup = [n \in {} |-> [user_set |-> {}, permissions |-> {}]]
    /\ store_creates = [n \in {} |-> 0]
    /\ returned = {}
    /\ run = [r \in Runners |-> NoRun]
    /\ last = NoCall

\* ------------------------------------------------------ MetaGroup.__new__
\* The name taken as it comes, not stripped.
UnstrippedName(raw) == raw

\* name = name.strip(' ')
StrippedName(raw) == Strip(raw)

\* A lookup that never finds the key.
NeverInCache(key) == FALSE

\* `elif name in _groups_cache`
InCache(key) == key \in CacheKeys

\* users_rules as __new__ stores it: a copy of a list, a one-rule list for a
\* single Q, None otherwise.
InitRules(arg) ==
    CASE arg.k = "list" -> OwnRules(arg.v)
      [] arg.k = "src"  -> OwnRules(src_rules[arg.id])
      [] arg.k = "q"    -> OwnRules(<< arg.r >>)
      [] OTHER          -> NoRules

\* A cache that keeps nothing but the entry assigned last.
DictReset(cache, key, group) == << group >>

\* _groups_cache[key] = group: a dict keeps a key's place when it is reassigned.
DictSet(cache, key, group) ==
    IF \E i \in 1..Len(cache) : cache[i].key = key
    THEN [i \in 1..Len(cache) |-> IF cache[i].key = key THEN group ELSE cache[i]]
    ELSE Append(cache, group)

\* DjGroup.objects.get_or_create(name=name)[0]
GetOrCreate(store, name) ==
    IF name \in DOMAIN store
    THEN store
    ELSE [n \in DOMAIN store \cup {name} |->
            IF n = name THEN [user_set |-> {}, permissions |-> {}] ELSE store[n]]

\* Rows created so far under the name.
Created(name) == IF name \in DOMAIN store_creates THEN store_creates[name] ELSE 0

\* MetaGroup(name, users_rules, non_users_rules), whatever the passes do.
MetaGroupCall(raw, users_rules, non_users_rules) ==
    LET name == StrippedName(raw) IN
    /\ UNCHANGED << module_permissions_cache, src_rules, run >>
    /\ IF name = << >>
       THEN /\ last' = Call("MetaGroup", raw, "-", "None", "ValueError", 0)
            /\ UNCHANGED << groups_cache, djgroup, store_creates, returned >>
       ELSE IF InCache(name)
       THEN /\ last' = Call("MetaGroup", raw, "-", "cached", "none", Entry(name).obj)
            /\ returned' = returned \cup { << Strip(raw), Entry(name).obj >> }
            /\ UNCHANGED << groups_cache, djgroup, store_creates >>
       ELSE LET group == [key |-> name, obj |-> NewObj, name |-> name,
                          users_rules |-> InitRules(users_rules),
                          non_users_rules |-> InitRules(non_users_rules),
                          permissions |-> [a \in {} |-> NoPerms]]
            IN /\ djgroup' = GetOrCreate(djgroup, name)
               /\ store_creates' =
                    IF name \in DOMAIN djgroup THEN store_creates
                    ELSE [n \in DOMAIN store_creates \cup {name} |->
                            IF n = name THEN Created(name) + 1 ELSE store_creates[n]]
               /\ groups_cache' = DictSet(groups_cache, name, group)
               /\ last' = Call("MetaGroup", raw, "-", "created", "none", group.obj)
               /\ returned' = returned \cup { << Strip(raw), group.obj >> }

\* MetaGroup(name, users_rules, non_users_rules) while no pass is in progress.
MetaGroupNew(raw, users_rules, non_users_rules) ==
    /\ Idle
    /\ MetaGroupCall(raw, users_rules, non_users_rules)

\* ------------------------------------------------- the group's own methods
\* _add_users_rules / _add_non_users_rules on the attribute `attr`: the new
\* attribute and the rule sources' lists afterwards.  extend() works in
\* place, so it changes a source's list when the attribute is an alias of it;
\* assignment makes the attribute an alias of the list it was handed.
ArgRules(arg, src) ==
    CASE arg.k = "src"  -> src[arg.id]
      [] arg.k = "list" -> arg.v
      [] OTHER          -> << arg.r >>

AddRules(attr, arg, src) ==
    LET cur == IF attr.k = "ref" THEN src[attr.id] ELSE attr.v IN
    IF attr.k # "none" /\ cur # << >>
    THEN IF attr.k = "ref"
         THEN [attr |-> attr, src |-> [src EXCEPT ![attr.id] = @ \o ArgRules(arg, src)]]
         ELSE [attr |-> OwnRules(attr.v \o ArgRules(arg, src)), src |-> src]
    ELSE [attr |-> IF arg.k = "src" THEN RefRules(arg.id) ELSE OwnRules(ArgRules(arg, src)),
          src |-> src]

\* A merge that assigns the new lists over the ones the group holds.
ReplacePerms(perms, app, new) ==
    [a \in DOMAIN perms \cup {app} |-> IF a = app THEN new ELSE perms[a]]

\* _add_perms({app: new}): the group's permissions dictionary afterwards.
AddPerms(perms, app, new) ==
    IF app \notin DOMAIN perms
    THEN [a \in DOMAIN perms \cup {app} |-> IF a = app THEN new ELSE perms[a]]
    ELSE [perms EXCEPT ![app] =
            [m \in DOMAIN perms[app] \cup DOMAIN new |->
               IF m \notin DOMAIN perms[app] THEN new[m]
               ELSE IF m \in DOMAIN new THEN perms[app][m] \o new[m]
               ELSE perms[app][m]]]

\* codename__startswith=prefix
StartsWith(codename, prefix) ==
    /\ Len(prefix) <= Len(codename)
    /\ SubSeq(codename, 1, Len(prefix)) = prefix

\* filter_perms: "none" with no (app, model) entry, "IndexError" when a
\* model's list is empty (modelos_perms[modelo][0]), else a Q expression.
FilterPerms(group) ==
    LET perms == group.permissions IN
    IF \A a \in DOMAIN perms : DOMAIN perms[a] = {} THEN "none"
    ELSE IF \E a \in DOMAIN perms : \E m \in DOMAIN perms[a] : perms[a][m] = << >>
    THEN "IndexError"
    ELSE "Q"

\* Permission.objects.filter(filter_perms)
FilteredPermissions(group) ==
    LET perms == group.permissions IN
    { p \in Permission :
        \E a \in DOMAIN perms : \E m \in DOMAIN perms[a] :
            /\ p.app = a
            /\ p.model = m
            /\ \E i \in 1..Len(perms[a][m]) : StartsWith(p.codename, perms[a][m][i]) }

\* User.objects.filter(*rules): the users every rule of the list selects.
FilterUsers(rules) ==
    { u \in Users : \A i \in 1..Len(rules) : u \in RuleUsers(rules[i]) }

\* check_for_new_users()
CheckForNewUsers(group, store) ==
    IF group.users_rules.k # "none"
    THEN FilterUsers(RulesOf(group.users_rules)) \ store[group.name].user_set
    ELSE {}

\* check_for_non_users()
CheckForNonUsers(group, store) ==
    IF group.non_users_rules.k # "none"
    THEN FilterUsers(RulesOf(group.non_users_rules)) \cap store[group.name].user_set
    ELSE {}

\* add_users(user_s) / remove_users(user_s) on the group's row.
AddUsers(group, store, users) ==
    [store EXCEPT ![group.name].user_set = @ \cup users]

RemoveUsers(group, store, users) ==
    [store EXCEPT ![group.name].user_set = @ \ users]

\* `self.filter_perms()`: filter_perms is a property, so this evaluates it
\* and then calls what it returned, None or a Q object; neither is callable.
CallFilterPerms(group) ==
    IF FilterPerms(group) = "IndexError"
    THEN [err |-> "IndexError", filtro |-> "none"]
    ELSE [err |-> "TypeError", filtro |-> "none"]

\* update_permissions(): the error raised ("none" when it returns) and the
\* store afterwards.
UpdatePermissions(group, store) ==
    LET called == CallFilterPerms(group)
        perms == FilteredPermissions(group)
    IN  IF called.err # "none" THEN [err |-> called.err, store |-> store]
        ELSE IF called.filtro = "none" THEN [err |-> "none", store |-> store]
        ELSE [err |-> "none",
              store |-> [store EXCEPT ![group.name].permissions =
                            (@ \cup perms) \ ((@ \cup perms) \ perms)]]

\* update_users() with the removals queried before the additions are made.
UpdateUsersStale(group, store) ==
    RemoveUsers(group, AddUsers(group, store, CheckForNewUsers(group, store)),
                CheckForNonUsers(group, store))

\* update_users(): the additions are made before the removals are queried.
UpdateUsers(group, store) ==
    LET added == AddUsers(group, store, CheckForNewUsers(group, store))
    IN  RemoveUsers(group, added, CheckForNonUsers(group, added))

\* update_group(): update_permissions() then update_users().
UpdateGroup(group, store) ==
    LET p == UpdatePermissions(group, store)
    IN  IF p.err # "none" THEN p
        ELSE [err |-> "none", store |-> UpdateUsers(group, p.store)]

\* check_user(user): what it returns and the store afterwards.
CheckUser(group, store, user) ==
    IF user \in CheckForNonUsers(group, store)
    THEN [ret |-> "False", store |-> RemoveUsers(group, store, {user})]
    ELSE IF user \in CheckForNewUsers(group, store)
    THEN [ret |-> "True", store |-> AddUsers(group, store, {user})]
    ELSE [ret |-> "None", store |-> store]

\* ----------------------------------------------------------- GroupsManager
\* check_user_groups(user) from the i-th cache entry on: `res or check_user()`
\* evaluates check_user() only while res is false or None.
RECURSIVE CheckUserGroupsFrom(_, _, _, _)
CheckUserGroupsFrom(i, res, store, user) ==
    IF i > Len(groups_cache) THEN [ret |-> res, store |-> store]
    ELSE IF res = "True" THEN CheckUserGroupsFrom(i + 1, res, store, user)
    ELSE LET c == CheckUser(groups_cache[i], store, user)
         IN  CheckUserGroupsFrom(i + 1, c.ret, c.store, user)

CheckUserGroups(store, user) == CheckUserGroupsFrom(1, "False", store, user)

\* update_groups() from the i-th cache entry on: the first update_group()
\* that raises ends the loop.
RECURSIVE UpdateGroupsFrom(_, _)
UpdateGroupsFrom(i, store) ==
    IF i > Len(groups_cache) THEN [err |-> "none", store |-> store]
    ELSE LET g == UpdateGroup(groups_cache[i], store)
         IN  IF g.err # "none" THEN g ELSE UpdateGroupsFrom(i + 1, g.store)

UpdateGroups(store) == UpdateGroupsFrom(1, store)

\* The model's bounds on the lists a group and the rule sources hold.
WithinBounds(group, src) ==
    /\ \A id \in SrcIds : Len(src[id]) <= MaxRules
    /\ Len(group.users_rules.v) <= MaxRules
    /\ Len(group.non_users_rules.v) <= MaxRules
    /\ \A a \in DOMAIN group.permissions : \A m \in DOMAIN group.permissions[a] :
          Len(group.permissions[a][m]) <= MaxPrefixes

\* ------------------------------------------------- calls made by the views
\* Each call runs while no pass is in progress.
Quiet == /\ Idle
         /\ UNCHANGED << groups_cache, module_permissions_cache, src_rules,
                         store_creates, returned, run >>

DoCheckUser(key, user) ==
    /\ InCache(key)
    /\ Quiet
    /\ LET c == CheckUser(Entry(key), djgroup, user)
       IN  /\ djgroup' = c.store
           /\ last' = Call("check_user", key, user, c.ret, "none", 0)

DoCheckUserGroups(user) ==
    /\ Quiet
    /\ LET c == CheckUserGroups(djgroup, user)
       IN  /\ djgroup' = c.store
           /\ last' = Call("check_user_groups", << >>, user, c.ret, "none", 0)

\* GroupsManager.update_group(group_name): self[group_name] raises KeyError
\* for a name that is not a key of the cache.
DoUpdateGroup(key) ==
    /\ Quiet
    /\ IF ~ InCache(key)
       THEN /\ last' = Call("update_group", key, "-", "None", "KeyError", 0)
            /\ UNCHANGED djgroup
       ELSE LET g == UpdateGroup(Entry(key), djgroup)
            IN  /\ djgroup' = g.store
                /\ last' = Call("update_group", key, "-", "None", g.err, 0)

DoUpdatePermissions(key) ==
    /\ InCache(key)
    /\ Quiet
    /\ LET p == UpdatePermissions(Entry(key), djgroup)
       IN  /\ djgroup' = p.store
           /\ last' = Call("update_permissions", key, "-", "None", p.err, 0)

DoUpdateUsers(key) ==
    /\ InCache(key)
    /\ Quiet
    /\ djgroup' = UpdateUsers(Entry(key), djgroup)
    /\ last' = Call("update_users", key, "-", "None", "none", 0)

DoUpdateGroups ==
    /\ Quiet
    /\ LET g == UpdateGroups(djgroup)
       IN  /\ djgroup' = g.store
           /\ last' = Call("update_groups", << >>, "-", "None", g.err, 0)

DoAddUsers(key, user) ==
    /\ InCache(key)
    /\ Quiet
    /\ djgroup' = AddUsers(Entry(key), djgroup, {user})
    /\ last' = Call("add_users", << >>, "-", "None", "none", 0)

DoRemoveUsers(key, user) ==
    /\ InCache(key)
    /\ Quiet
    /\ djgroup' = RemoveUsers(Entry(key), djgroup, {user})
    /\ last' = Call("remove_users", << >>, "-", "None", "none", 0)

\* group._add_users_rules(rules) / group._add_non_users_rules(rules), called
\* on a registered group.
DoAddUsersRules(key, arg) ==
    /\ InCache(key)
    /\ Idle
    /\ LET n == AddRules(Entry(key).users_rules, arg, src_rules)
           merged == [Entry(key) EXCEPT !.users_rules = n.attr]
       IN  /\ WithinBounds(merged, n.src)
           /\ groups_cache' = [groups_cache EXCEPT ![IndexOf(key)] = merged]
           /\ src_rules' = n.src
    /\ last' = Call("_add_users_rules", key, "-", "None", "none", 0)
    /\ UNCHANGED << module_permissions_cache, djgroup, store_creates, returned, run >>

DoAddNonUsersRules(key, arg) ==
    /\ InCache(key)
    /\ Idle
    /\ LET n == AddRules(Entry(key).non_users_rules, arg, src_rules)
           merged == [Entry(key) EXCEPT !.non_users_rules = n.attr]
       IN  /\ WithinBounds(merged, n.src)
           /\ groups_cache' = [groups_cache EXCEPT ![IndexOf(key)] = merged]
           /\ src_rules' = n.src
    /\ last' = Call("_add_non_users_rules", key, "-", "None", "none", 0)
    /\ UNCHANGED << module_permissions_cache, djgroup, store_creates, returned, run >>

\* group.filter_perms read on a registered group: None or a Q object comes
\* back, or the IndexError of modelos_perms[modelo][0] is raised.
DoFilterPerms(key) ==
    /\ InCache(key)
    /\ Quiet
    /\ UNCHANGED djgroup
    /\ last' = LET filtro == FilterPerms(Entry(key)) IN
               IF filtro = "IndexError"
               THEN Call("filter_perms", key, "-", "None", "IndexError", 0)
               ELSE IF filtro = "none"
               THEN Call("filter_perms", key, "-", "None", "none", 0)
               ELSE Call("filter_perms", key, "-", "Q", "none", 0)

\* group._add_perms({app: new}), called on a registered group.
DoAddPerms(key, app, new) ==
    /\ InCache(key)
    /\ Idle
    /\ LET merged == [Entry(key) EXCEPT !.permissions = AddPerms(@, app, new)] IN
       /\ \A a \in DOMAIN merged.permissions : \A m \in DOMAIN merged.permissions[a] :
              Len(merged.permissions[a][m]) <= MaxPrefixes
       /\ groups_cache' = [groups_cache EXCEPT ![IndexOf(key)] = merged]
    /\ last' = [Call("_add_perms", key, "-", "None", "none", 0)
                 EXCEPT !.arg = [app |-> app, perms |-> new]]
    /\ UNCHANGED << module_permissions_cache, src_rules, djgroup, store_creates,
                    returned, run >>

\* ------------------------------------------------------------- Management
\* app_configs: installed apps in some order, no app twice.
AppConfigs ==
    { c \in UNION { [1..n -> Apps] : n \in 1..MaxDomains } :
        \A i, j \in 1..Len(c) : c[i] = c[j] => i = j }

\* app_permissions(root_app) returns a module: from the cache, or imported.
AppPermissionsLoads(app) ==
    app \in module_permissions_cache \/ HasPermissionsModule(app)

Started(entry, configs) ==
    [pc |-> "app", entry |-> entry, app_configs |-> configs,
     app_i |-> 1, gp_i |-> 0, sync_calls |-> 0]

\* init_groups(sender): _groups_cache.clear(), then process_groups(...).
InitGroups(r, configs) ==
    /\ run[r].pc = "idle"
    /\ groups_cache' = << >>
    /\ returned' = {}
    /\ run' = [run EXCEPT ![r] = Started("init_groups", configs)]
    /\ last' = NoCall
    /\ UNCHANGED << module_permissions_cache, src_rules, djgroup, store_creates >>

\* process_groups(app_configs) called on its own: the cache is kept.
ProcessGroups(r, configs) ==
    /\ run[r].pc = "idle"
    /\ run' = [run EXCEPT ![r] = Started("process_groups", configs)]
    /\ last' = NoCall
    /\ UNCHANGED << groups_cache, returned, module_permissions_cache, src_rules,
                    djgroup, store_creates >>

\* A pass ends: it hands its error ("none" when it returns) to its caller.
Ended(r, name, err) ==
    /\ run' = [run EXCEPT ![r] = NoRun]
    /\ last' = Call(run[r].entry, name, "-", "None", err, 0)

\* `for app_name in app_configs`: app_permissions(app_name); a failed import
\* goes on to the next app.
RunLoad(r) ==
    /\ run[r].pc = "app"
    /\ run[r].app_i <= Len(run[r].app_configs)
    /\ LET app == run[r].app_configs[run[r].app_i] IN
       IF ~ AppPermissionsLoads(app)
       THEN /\ run' = [run EXCEPT ![r].app_i = @ + 1]
            /\ UNCHANGED module_permissions_cache
       ELSE /\ module_permissions_cache' = module_permissions_cache \cup {app}
            /\ run' = [run EXCEPT ![r].gp_i = 1,
                                  ![r].pc = IF GroupSpecs(app) = << >> THEN "sync" ELSE "gp"]
    /\ UNCHANGED << groups_cache, returned, src_rules, djgroup, store_creates, last >>

\* The loop over app_configs is over: process_groups returns.
RunReturn(r) ==
    /\ run[r].pc = "app"
    /\ run[r].app_i > Len(run[r].app_configs)
    /\ Ended(r, << >>, "none")
    /\ UNCHANGED << groups_cache, returned, module_permissions_cache, src_rules,
                    djgroup, store_creates >>

\* One Group* class of the module: groups.get(group_app.name) is
\* __getitem__, so it raises KeyError for a name the cache does not hold and
\* returns the group otherwise; the group then takes the class's rules and
\* permissions.
RunGroupSpec(r) ==
    /\ run[r].pc = "gp"
    /\ LET app == run[r].app_configs[run[r].app_i]
           group_app == GroupSpecs(app)[run[r].gp_i]
       IN
       IF ~ InCache(group_app.name)
       THEN /\ Ended(r, << >>, "KeyError")
            /\ UNCHANGED << groups_cache, src_rules >>
       ELSE LET group == Entry(group_app.name)
                u == IF group_app.has_users_rules
                     THEN AddRules(group.users_rules, group_app.users_rules, src_rules)
                     ELSE [attr |-> group.users_rules, src |-> src_rules]
                n == IF group_app.has_non_users_rules
                     THEN AddRules(group.non_users_rules, group_app.non_users_rules, u.src)
                     ELSE [attr |-> group.non_users_rules, src |-> u.src]
                merged == [group EXCEPT
                             !.users_rules = u.attr,
                             !.non_users_rules = n.attr,
                             !.permissions =
                                 IF group_app.has_permissions
                                 THEN AddPerms(@, app, group_app.permissions)
                                 ELSE @]
            IN  /\ WithinBounds(merged, n.src)
                /\ groups_cache' = [groups_cache EXCEPT ![IndexOf(group_app.name)] = merged]
                /\ src_rules' = n.src
                /\ run' = [run EXCEPT
                             ![r].gp_i = @ + 1,
                             ![r].pc = IF run[r].gp_i = Len(GroupSpecs(app))
                                       THEN "sync" ELSE "gp"]
                /\ UNCHANGED last
    /\ UNCHANGED << returned, module_permissions_cache, djgroup, store_creates >>

\* groups.update_groups(), inside the loop over app_configs: it runs once for
\* each app whose module loaded.
RunUpdateGroups(r) ==
    /\ run[r].pc = "sync"
    /\ LET g == UpdateGroups(djgroup) IN
       /\ djgroup' = g.store
       /\ IF g.err # "none"
          THEN Ended(r, << >>, g.err)
          ELSE /\ run' = [run EXCEPT ![r].pc = "app", ![r].app_i = @ + 1,
                                     ![r].sync_calls = @ + 1]
               /\ UNCHANGED last
    /\ UNCHANGED << groups_cache, returned, module_permissions_cache, src_rules,
                    store_creates >>

\* -------------------------------------------------------------- decorators
\* request.user of a view call: AnonymousUser, users who are not active
\* (one of them a superuser), a superuser, and two ordinary users.
Visitors == {"anon", "inactive", "inactive_root", "root", "author", "reader"}

IsAuthenticated(visitor) == visitor # "anon"

IsActive(visitor) == visitor \in {"root", "author", "reader"}

IsSuperuser(visitor) == visitor \in {"root", "inactive_root"}

\* The object permission functions the views name.  The permissions modules
\* of blog and shop define can_edit(user, instance...), true for the author
\* of the instances; no module defines can_drop.
FuncNames == {"can_edit", "can_drop"}

HasFunc(app, name_func) == app \in {"blog", "shop"} /\ name_func = "can_edit"

CanEdit(visitor) == visitor = "author"

\* The models perm_objs is given (perm_obj takes one), and the positional
\* arguments the URL hands to the view.
NumModels == 1

ViewArgs == 0..NumModels

\* A check that leaves out is_active.
AuthenticatedOnly(visitor) == IsAuthenticated(visitor)

\* `request.user.is_authenticated and request.user.is_active`
LoggedIn(visitor) == IsAuthenticated(visitor) /\ IsActive(visitor)

\* check(request, *args) of perm_obj / perm_objs: what the wrapper returns
\* ("view" when it called the view), the exception it raises, and the apps
\* whose module get_object_permission_func has cached.  perm_objs indexes
\* args by the models' positions; perm_obj looks the instance up by a pk
\* that may be None.
Check(decorator, visitor, app, name_func, nargs, cache) ==
    IF ~ LoggedIn(visitor)
    THEN [ret |-> "None", err |-> "PermissionDenied", cache |-> cache]
    ELSE IF IsSuperuser(visitor)
    THEN [ret |-> "view", err |-> "none", cache |-> cache]
    ELSE IF ~ (app \in cache \/ HasPermissionsModule(app))
    THEN [ret |-> "None", err |-> "ModuleNotFoundError", cache |-> cache]
    ELSE IF ~ HasFunc(app, name_func)
    THEN [ret |-> "None", err |-> "AttributeError", cache |-> cache \cup {app}]
    ELSE IF decorator = "perm_objs" /\ nargs < NumModels
    THEN [ret |-> "None", err |-> "IndexError", cache |-> cache \cup {app}]
    ELSE IF ~ CanEdit(visitor)
    THEN [ret |-> "None", err |-> "PermissionDenied", cache |-> cache \cup {app}]
    ELSE [ret |-> "view", err |-> "none", cache |-> cache \cup {app}]

\* A request reaches a view wrapped by perm_obj(name_func, model) or by
\* perm_objs(name_func, models); obj holds the number of positional arguments.
DoCheck(decorator, visitor, app, name_func, nargs) ==
    /\ Idle
    /\ LET c == Check(decorator, visitor, app, name_func, nargs, module_permissions_cache)
       IN  /\ module_permissions_cache' = c.cache
           /\ last' = [Call(decorator, << name_func >>, visitor, c.ret, c.err, nargs)
                        EXCEPT !.arg = [app |-> app, perms |-> NoPerms]]
    /\ UNCHANGED << groups_cache, src_rules, djgroup, store_creates, returned, run >>

DoPermObj(visitor, app, name_func, nargs) ==
    DoCheck("perm_obj", visitor, app, name_func, nargs)

DoPermObjs(visitor, app, name_func, nargs) ==
    DoCheck("perm_objs", visitor, app, name_func, nargs)

\* -------------------------------------------------------- specifications
\* The rule arguments a caller hands to MetaGroup(...).
UsersRulesArgs == { ArgNone, ArgQ("is_staff") }

NonUsersRulesArgs == { ArgNone, ArgQ("is_banned") }

Step(r) ==
    \/ RunLoad(r)
    \/ RunGroupSpec(r)
    \/ RunUpdateGroups(r)
    \/ RunReturn(r)

\* MetaGroup(name, ...) with each name and rule arguments.
NewGroups ==
    \E raw \in RawNames, u \in UsersRulesArgs, n \in NonUsersRulesArgs :
        MetaGroupNew(raw, u, n)

\* A pass at a time (post_migrate fires in the migrating process).
Passes ==
    \/ \E configs \in AppConfigs : Idle /\ InitGroups(1, configs)
    \/ \E configs \in AppConfigs : Idle /\ ProcessGroups(1, configs)
    \/ Step(1)

\* The synchronisation calls on the groups and on the manager.
Updates ==
    \/ \E key \in RawNames : DoUpdateGroup(key)
    \/ \E key \in RawNames : DoUpdatePermissions(key)
    \/ DoUpdateGroups

\* The membership calls.
Memberships ==
    \/ \E key \in RawNames, user \in Users : DoCheckUser(key, user)
    \/ \E user \in Users : DoCheckUserGroups(user)
    \/ \E key \in RawNames : DoUpdateUsers(key)
    \/ \E key \in RawNames, user \in Users : DoAddUsers(key, user)
    \/ \E key \in RawNames, user \in Users : DoRemoveUsers(key, user)

\* The passes and the catalog, with the membership of every group left as
\* the store has it.
NextPasses ==
    \/ NewGroups
    \/ Passes
    \/ Updates

SpecPasses == Init /\ [][NextPasses]_vars

\* The groups and their members, with no pass run.
NextUsers ==
    \/ NewGroups
    \/ \E key \in RawNames : DoUpdateGroup(key)
    \/ Memberships

SpecUsers == Init /\ [][NextUsers]_vars

\* The dictionaries a caller hands to _add_perms, as {app: perms}.
PermsArgs ==
    { [app |-> "blog", perms |-> [m \in {"post"} |-> << <<"add">> >>]],
      [app |-> "blog", perms |-> [m \in {"post"} |-> << <<"change">> >>]],
      [app |-> "blog", perms |-> [m \in {"post"} |-> << >>]],
      [app |-> "shop", perms |-> [m \in {"order"} |-> << <<"view">> >>]],
      [app |-> "shop", perms |-> [m \in {"order", "cart"} |->
                                    IF m = "order" THEN << <<"view">> >> ELSE << >>]] }

\* MetaGroup(name) with no rules and a name that has no space around it.
NewPlainGroups == \E raw \in Cores : MetaGroupNew(raw, ArgNone, ArgNone)

\* The calls on a group's permissions dictionary.
Grants ==
    \/ \E key \in Cores, p \in PermsArgs : DoAddPerms(key, p.app, p.perms)
    \/ \E key \in Cores : DoFilterPerms(key)

\* The groups and their grants.
NextGrants ==
    \/ NewPlainGroups
    \/ Grants

SpecGrants == Init /\ [][NextGrants]_vars

\* MetaGroup(name, ...) with rule lists that may be empty.
ListedUsersRulesArgs == { ArgNone, ArgList(<< >>), ArgQ("is_staff") }

ListedNonUsersRulesArgs == { ArgNone, ArgList(<< >>), ArgQ("is_banned") }

NewListedGroups ==
    \E raw \in RawNames, u \in ListedUsersRulesArgs, n \in ListedNonUsersRulesArgs :
        MetaGroupNew(raw, u, n)

\* The groups, made with and without rule lists, and their members.
NextMembers ==
    \/ NewListedGroups
    \/ \E key \in RawNames : DoUpdateUsers(key)
    \/ \E key \in RawNames, user \in Users : DoAddUsers(key, user)
    \/ \E key \in RawNames, user \in Users : DoRemoveUsers(key, user)

SpecMembers == Init /\ [][NextMembers]_vars

\* The requests to the wrapped views, with the modules they load.
NextViews ==
    \/ \E v \in Visitors, app \in Apps, f \in FuncNames, n \in ViewArgs :
          DoPermObj(v, app, f, n)
    \/ \E v \in Visitors, app \in Apps, f \in FuncNames, n \in ViewArgs :
          DoPermObjs(v, app, f, n)

SpecViews == Init /\ [][NextViews]_vars

\* app_configs of the passes that overlap.
RaceConfigs == { c \in AppConfigs : \A i \in 1..Len(c) : c[i] \in {"blog", "shop"} }

\* Two threads call init_groups with nothing that makes one wait for the
\* other (the code takes no lock), while MetaGroup(name) is called by the
\* rest of the program.
NextRace ==
    \/ \E r \in Runners, configs \in RaceConfigs : InitGroups(r, configs)
    \/ \E r \in Runners : Step(r)
    \/ \E raw \in RawNames : MetaGroupCall(raw, ArgNone, ArgNone)

SpecRace == Init /\ [][NextRace]_vars

\* app_configs of the passes over the app whose class holds a list of rules.
SourceConfigs == { << "crm" >>, << "core" >> }

\* The rules handed to _add_users_rules (a Q object or the list a rule
\* source holds) and to _add_non_users_rules.
AddedUsersRulesArgs == { ArgQ("is_banned"), ArgSrc("crm.staff") }

AddedNonUsersRulesArgs == { ArgQ("is_banned") }

\* The direct calls that merge rules into a group.
Merges ==
    \/ \E key \in Cores, arg \in AddedUsersRulesArgs : DoAddUsersRules(key, arg)
    \/ \E key \in Cores, arg \in AddedNonUsersRulesArgs : DoAddNonUsersRules(key, arg)

\* The groups, the rules merged into them by the passes and by direct calls.
NextSources ==
    \/ NewPlainGroups
    \/ \E configs \in SourceConfigs : Idle /\ InitGroups(1, configs)
    \/ \E configs \in SourceConfigs : Idle /\ ProcessGroups(1, configs)
    \/ Step(1)
    \/ Merges

SpecSources == Init /\ [][NextSources]_vars

\* The whole program on one thread: groups made, passes, the calls between
\* passes and the requests to the views.  The specifications above are its
\* parts.
Next ==
    \/ NewGroups
    \/ Passes
    \/ Updates
    \/ Memberships
    \/ Grants
    \/ Merges
    \/ NextViews

Spec == Init /\ [][Next]_vars

\* ------------------------------------------------------------- the claims
\* A step of a pass made by update_groups() / by the return of the pass.
IsUpdateGroupsStep(r) == run[r].pc = "sync" /\ run'[r] # run[r]

IsReturnStep(r) == run[r].pc = "app" /\ run'[r].pc = "idle" /\ last'.err = "none"

\* C1: in every pass update_groups() is called exactly once, and only after
\* every app of app_configs has been scanned: each call is the first of its
\* pass and is made with no app left, and a pass that returns has made one.
C1_SyncOnceAfterAllDomains ==
    [][ \A r \in Runners :
          /\ IsUpdateGroupsStep(r) =>
                /\ run[r].sync_calls = 0
                /\ run[r].app_i = Len(run[r].app_configs)
          /\ IsReturnStep(r) => run[r].sync_calls = 1 ]_vars

\* The Group* class a pass stands at.
GroupAppAt(r) == GroupSpecs(run[r].app_configs[run[r].app_i])[run[r].gp_i]

\* C2: a pass started by init_groups (from the cleared cache) that meets a
\* Group* class whose name is not registered yet registers a group of that
\* name and goes on without an error.
C2_RunMaterializesNewGroup ==
    [][ \A r \in Runners :
          ( /\ run[r].pc = "gp"
            /\ run[r].entry = "init_groups"
            /\ GroupAppAt(r).name \notin CacheKeys
            /\ run'[r] # run[r] )
          => /\ run'[r].pc # "idle"
             /\ \E i \in 1..Len(groups_cache') :
                    groups_cache'[i].key = GroupAppAt(r).name ]_vars

\* The user is selected by every rule of a (defined) rule list.
MatchesRules(attr, user) == attr.k # "none" /\ user \in FilterUsers(RulesOf(attr))

\* C3: check_user(user) never adds a user who matches both the exclusion and
\* the inclusion rules of the group, member or not; a member is removed and
\* the outcome is Removed (False).
C3_ExclusionPrecedence ==
    [][ last'.op = "check_user" =>
          LET group == Entry(last'.name)
              user == last'.user
          IN  ( /\ MatchesRules(group.non_users_rules, user)
                /\ MatchesRules(group.users_rules, user) )
              => /\ user \notin djgroup'[group.name].user_set
                 /\ user \in djgroup[group.name].user_set => last'.ret = "False" ]_vars

\* C4: check_user_groups(user) applies check_user(user) to every group of the
\* cache: afterwards each group's members are those its own check_user(user)
\* produces, whatever the groups visited before it returned.
C4_EveryGroupChecked ==
    [][ last'.op = "check_user_groups" =>
          \A i \in 1..Len(groups_cache) :
              LET group == groups_cache[i] IN
              djgroup'[group.name].user_set =
                  CheckUser(group, djgroup, last'.user).store[group.name].user_set ]_vars

\* C5: check_user_groups(user) returns true exactly when some group changed
\* the user's membership in the call, by adding or by removing.
C5_TrueIffMembershipChanged ==
    [][ last'.op = "check_user_groups" =>
          ( (last'.ret = "True") <=>
            (\E n \in DOMAIN djgroup : djgroup'[n].user_set # djgroup[n].user_set) ) ]_vars

\* C6: for a group with no grants filter_perms is None and
\* update_permissions() returns without an error and leaves the group's
\* permissions and members as they were.
C6_NoGrantsNoOp ==
    [][ ( /\ last'.op = "update_permissions"
          /\ \A a \in DOMAIN Entry(last'.name).permissions :
                 DOMAIN Entry(last'.name).permissions[a] = {} )
        => /\ FilterPerms(Entry(last'.name)) = "none"
           /\ last'.err = "none"
           /\ djgroup' = djgroup ]_vars

\* C7: for a group with a grant, after update_permissions() the group's
\* permissions are exactly the Permission rows its filter selects.
C7_PermissionsEqualFiltered ==
    [][ ( /\ last'.op = "update_permissions"
          /\ \E a \in DOMAIN Entry(last'.name).permissions :
                 DOMAIN Entry(last'.name).permissions[a] # {} )
        => djgroup'[Entry(last'.name).name].permissions =
               FilteredPermissions(Entry(last'.name)) ]_vars

OnlySpaces(s) == \A i \in 1..Len(s) : s[i] = " "

HasKey(perms, app, model) == app \in DOMAIN perms /\ model \in DOMAIN perms[app]

PrefixesAt(perms, app, model) ==
    IF HasKey(perms, app, model) THEN perms[app][model] ELSE << >>

\* C11: a new group holds no grants, and each _add_perms({app: new}) on a
\* group leaves, under every (app, model) key, the list the group held
\* followed by the list the call brought for that key: keys of other apps and
\* models stay, a key that exists is appended to and never replaced, and no
\* other group changes.  By induction the list of a key is the concatenation,
\* in call order, of the lists contributed for it.
C11_PermsConcatenated ==
    [][ /\ (last'.op = "MetaGroup" /\ last'.ret = "created") =>
              \E i \in 1..Len(groups_cache') :
                  /\ groups_cache'[i].obj = last'.obj
                  /\ DOMAIN groups_cache'[i].permissions = {}
        /\ last'.op = "_add_perms" =>
              LET i == IndexOf(last'.name)
                  app == last'.arg.app
                  new == last'.arg.perms
                  old == groups_cache[i].permissions
                  now == groups_cache'[i].permissions
              IN  /\ Len(groups_cache') = Len(groups_cache)
                  /\ \A j \in 1..Len(groups_cache) :
                         j # i => groups_cache'[j] = groups_cache[j]
                  /\ DOMAIN now = DOMAIN old \cup {app}
                  /\ \A a \in DOMAIN now :
                         /\ DOMAIN now[a] =
                               (IF a \in DOMAIN old THEN DOMAIN old[a] ELSE {})
                               \cup (IF a = app THEN DOMAIN new ELSE {})
                         /\ \A m \in DOMAIN now[a] :
                               now[a][m] =
                                 PrefixesAt(old, a, m)
                                 \o (IF a = app /\ m \in DOMAIN new THEN new[m] ELSE << >>) ]_vars

\* C11 witness: a group took a second list for (blog, post) after a first
\* one, and holds a key of another app beside it.
C11_Witness ==
    /\ last.op = "_add_perms"
    /\ last.arg.app = "blog"
    /\ \E i \in 1..Len(groups_cache) :
          /\ groups_cache[i].key = last.name
          /\ HasKey(groups_cache[i].permissions, "shop", "order")
          /\ PrefixesAt(groups_cache[i].permissions, "blog", "post")
                = << <<"add">>, <<"change">> >>

\* The rule attribute holds no rule: it is None or an empty list.
HasNoRules(attr) == attr.k = "none" \/ RulesOf(attr) = << >>

\* C12: for every registered group, check_for_new_users() selects nobody
\* when the group has no inclusion rule and check_for_non_users() selects
\* nobody when it has no exclusion rule, the rule list being None or empty.
C12_NoRulesNoCandidates ==
    \A i \in 1..Len(groups_cache) :
        LET group == groups_cache[i] IN
        /\ HasNoRules(group.users_rules) => CheckForNewUsers(group, djgroup) = {}
        /\ HasNoRules(group.non_users_rules) => CheckForNonUsers(group, djgroup) = {}

\* C19: after update_users() on a group whose exclusion rules are defined,
\* no member of the group matches all its exclusion rules; a user the call
\* itself added for the inclusion rules is removed by it when the exclusion
\* rules select that user too.
C19_NoExcludedMemberAfterUpdate ==
    [][ last'.op = "update_users" =>
          LET group == Entry(last'.name) IN
          group.non_users_rules.k # "none" =>
              \A u \in djgroup'[group.name].user_set :
                  u \notin FilterUsers(RulesOf(group.non_users_rules)) ]_vars

\* C19 witness: update_users() ran on a group with inclusion and exclusion
\* rules; a user both select is not a member, one only the inclusion rules
\* select is.
C19_Witness ==
    /\ last.op = "update_users"
    /\ \E i \in 1..Len(groups_cache) :
          LET group == groups_cache[i] IN
          /\ group.key = last.name
          /\ group.users_rules.k # "none"
          /\ group.non_users_rules.k # "none"
          /\ \E u, w \in Users :
                /\ u \in FilterUsers(RulesOf(group.users_rules))
                /\ u \in FilterUsers(RulesOf(group.non_users_rules))
                /\ u \notin djgroup[group.name].user_set
                /\ w \notin FilterUsers(RulesOf(group.non_users_rules))
                /\ w \in djgroup[group.name].user_set

\* The step that ends the pass of thread r, by a return or by an error.
IsEndStep(r) == run[r].pc # "idle" /\ run'[r].pc = "idle"

\* The names the Group* classes of app_configs give, over the apps whose
\* permissions module loads.
SpecNames(configs) ==
    UNION { { GroupSpecs(configs[i])[j].name : j \in 1..Len(GroupSpecs(configs[i])) } :
              i \in { k \in 1..Len(configs) : HasPermissionsModule(configs[k]) } }

\* C13: a pass started by init_groups over app_configs with an app whose
\* permissions module fails to load skips that app and goes on: it returns
\* without an error, and the Group* classes of the apps before and after it
\* are merged, so that the cache holds a group for each of their names with
\* the app's permissions in it.
C13_LoadFailureSkipped ==
    [][ \A r \in Runners :
          ( /\ IsEndStep(r)
            /\ run[r].entry = "init_groups"
            /\ \E i \in 1..Len(run[r].app_configs) :
                   ~ HasPermissionsModule(run[r].app_configs[i]) )
          => /\ last'.err = "none"
             /\ \A i \in 1..Len(run[r].app_configs) :
                   LET app == run[r].app_configs[i] IN
                   HasPermissionsModule(app) =>
                     \A j \in 1..Len(GroupSpecs(app)) :
                        \E k \in 1..Len(groups_cache') :
                           /\ groups_cache'[k].key = GroupSpecs(app)[j].name
                           /\ GroupSpecs(app)[j].has_permissions =>
                                 app \in DOMAIN groups_cache'[k].permissions ]_vars

\* C14: a pass started by init_groups rebuilds the cache from empty: when it
\* ends the cache holds exactly the groups its Group* classes name, and no
\* group registered before it that it does not name.
C14_CacheRebuiltFromEmpty ==
    [][ \A r \in Runners :
          (IsEndStep(r) /\ run[r].entry = "init_groups")
          => { groups_cache'[k].key : k \in 1..Len(groups_cache') }
                = SpecNames(run[r].app_configs) ]_vars

\* A step made by a view wrapped by perm_obj or perm_objs.
IsViewCall(call) == call.op \in {"perm_obj", "perm_objs"}

\* The named function exists and returns true for (user, instance...).
FuncReturnsTrue(call) == HasFunc(call.arg.app, call.name[1]) /\ CanEdit(call.user)

\* C15 as claimed: the wrapped view is executed exactly when the user is
\* authenticated and active and is a superuser or the named function returns
\* true; in every other case PermissionDenied is raised.
C15_ViewOnlyIfAllowed ==
    [][ IsViewCall(last') =>
          IF /\ IsAuthenticated(last'.user)
             /\ IsActive(last'.user)
             /\ (IsSuperuser(last'.user) \/ FuncReturnsTrue(last'))
          THEN last'.ret = "view" /\ last'.err = "none"
          ELSE last'.ret # "view" /\ last'.err = "PermissionDenied" ]_vars

\* C15 as amended: the wrapped view is executed only if the user is
\* authenticated and active and is a superuser or the named function returns
\* true; whenever it is not executed an exception is raised, which is
\* PermissionDenied when the user is not authenticated or not active or the
\* function returned false, and the error of the lookup (ModuleNotFoundError,
\* AttributeError, IndexError) when the function or an instance could not be
\* obtained for a user who is not a superuser.
C15_ViewOnlyIfAllowedOrLookupError ==
    [][ IsViewCall(last') =>
          LET allowed == /\ IsAuthenticated(last'.user)
                         /\ IsActive(last'.user)
                         /\ (IsSuperuser(last'.user) \/ FuncReturnsTrue(last'))
              resolved == /\ HasPermissionsModule(last'.arg.app)
                          /\ HasFunc(last'.arg.app, last'.name[1])
                          /\ (last'.op = "perm_objs" => last'.obj >= NumModels)
          IN  /\ last'.ret = "view" => (allowed /\ last'.err = "none")
              /\ last'.ret # "view" => last'.err # "none"
              /\ (~ allowed /\ (resolved \/ ~ (IsAuthenticated(last'.user) /\ IsActive(last'.user))))
                    => last'.err = "PermissionDenied"
              /\ (allowed /\ (resolved \/ IsSuperuser(last'.user))) => last'.ret = "view"
              /\ last'.err \in {"none", "PermissionDenied", "ModuleNotFoundError",
                                 "AttributeError", "IndexError"} ]_vars

\* C15 witness: a user who is active and not a superuser was let into a view
\* wrapped by perm_objs, by the function looked up in the app's module.
C15_Witness ==
    /\ last.op = "perm_objs"
    /\ last.ret = "view"
    /\ ~ IsSuperuser(last.user)
    /\ last.arg.app \in module_permissions_cache

\* C16: update_group() on a registered group runs update_permissions() and
\* then update_users(): every call returns having done both, so that
\* afterwards the users its inclusion rules select are members unless the
\* exclusion rules select them, and no member matches the exclusion rules.
C16_PermissionsThenMembership ==
    [][ (last'.op = "update_group" /\ last'.err # "KeyError") =>
          LET group == Entry(last'.name)
              members == djgroup'[group.name].user_set
          IN  /\ last'.err = "none"
              /\ group.users_rules.k # "none" =>
                    \A u \in FilterUsers(RulesOf(group.users_rules)) :
                        u \in members \/ MatchesRules(group.non_users_rules, u)
              /\ group.non_users_rules.k # "none" =>
                    \A u \in members : ~ MatchesRules(group.non_users_rules, u) ]_vars

\* C17: filter_perms is defined for every permissions dictionary a group
\* holds: reading it raises nothing, it is None exactly when the dictionary
\* has no (app, model) key, and otherwise it selects a Permission row exactly
\* when some key is the row's (app, model) and a prefix of the key's list
\* starts the row's codename, a key with an empty list selecting no row.
C17_FilterDefinedForEveryGrant ==
    [][ last'.op = "filter_perms" =>
          LET perms == Entry(last'.name).permissions IN
          /\ last'.err = "none"
          /\ (last'.ret = "None") <=> (\A a \in DOMAIN perms : DOMAIN perms[a] = {})
          /\ FilteredPermissions(Entry(last'.name)) =
                { p \in Permission :
                    /\ HasKey(perms, p.app, p.model)
                    /\ \E i \in 1..Len(perms[p.app][p.model]) :
                          StartsWith(p.codename, perms[p.app][p.model][i]) } ]_vars

\* The names of the Group* classes the pass of thread r has merged for the
\* app it stands at, with update_groups() for them still to come.
PendingNames(r) ==
    IF run[r].pc \notin {"gp", "sync"} THEN {}
    ELSE LET specs == GroupSpecs(run[r].app_configs[run[r].app_i])
             done == IF run[r].pc = "sync" THEN Len(specs) ELSE run[r].gp_i - 1
         IN  { specs[j].name : j \in 1..done }

\* Thread r starts a pass in this step while another thread's pass is in
\* progress: the two invocations overlap.
StartsOverlapping(r) ==
    /\ run[r].pc = "idle"
    /\ run'[r].pc # "idle"
    /\ \E q \in Runners \ {r} : run[q].pc # "idle"

C20_RuleSourcesUnchanged ==
    [][ src_rules' = src_rules ]_vars

====
